---- MODULE Spec2Model ----
(***************************************************************************)
(* Model of the IndexTTS FastAPI service, src/index-tts/tts_api.py.        *)
(*                                                                         *)
(* One process, one asyncio event loop: every handler is an `async def`,   *)
(* so a handler runs without interruption up to its next await.            *)
(* generate_speech and health_check contain no await and are one step      *)
(* each; upload_voice_sample suspends at `await file.read()` with the      *)
(* file already opened for writing; get_audio returns a FileResponse whose *)
(* file is read only when the response is sent.                            *)
(*                                                                         *)
(* Strings are sequences of tokens (a token is a short run of characters), *)
(* so f-strings are concatenations and paths are split on "/".             *)
(***************************************************************************)
EXTENDS Integers, Sequences, FiniteSets, TLC

\* ---------------------------------------------------------------- bounds
\* number of HTTP requests served in one run
MaxReqs == 3
\* size of the pool uuid.uuid4() draws from
NumUuids == 3

\* ------------------------------------------------------------- constants
None == "None"
NoName == << >>

HexChars == <<"0", "1", "2", "3", "4", "5", "6", "7", "8", "9">>
\* the values uuid.uuid4() can return, each one token long
UUIDs == { <<HexChars[i]>> : i \in 1..NumUuids }

\* OUTPUT_PATH = os.getenv("OUTPUT_PATH", "/app/output")
OUTPUT_PATH == <<"/", "app", "/", "output">>

\* the directories of the file system; none is ever created or removed by
\* the service after Path(OUTPUT_PATH).mkdir(parents=True, exist_ok=True)
Dirs == { << >>, << <<"app">> >>, << <<"app">>, <<"output">> >>, << <<"etc">> >> }
OutputDir == << <<"app">>, <<"output">> >>

\* request bodies offered to the service
Texts == { << >>, <<" ">>, <<"hello">> }
UploadNames == { <<"voice", ".wav">>,
                 <<"/", "etc", "/", "passwd">>,
                 <<"..", "/", "..", "/", "etc", "/", "passwd">> }
Contents == { << >>, <<1, 2>> }

VARIABLES tts_model, fs, reqs, used, loadAttempts, loadFailures, served

vars == <<tts_model, fs, reqs, used, loadAttempts, loadFailures, served>>

Reqs == 1..MaxReqs

\* ------------------------------------------------------------ path model
\* os.path.join(a, b) on POSIX: an absolute b replaces a
join(a, b) ==
    IF b # << >> /\ Head(b) = "/" THEN b
    ELSE IF a # << >> /\ a[Len(a)] = "/" THEN a \o b
    ELSE a \o <<"/">> \o b

\* the components of a path string, split on "/"
RECURSIVE split(_, _)
split(path, cur) ==
    IF path = << >> THEN <<cur>>
    ELSE IF Head(path) = "/" THEN <<cur>> \o split(Tail(path), << >>)
    ELSE split(Tail(path), Append(cur, Head(path)))

\* kernel path walk from directory `dir` over components `comps`:
\* the set holding the directory reached, or {} (ENOENT / ENOTDIR)
RECURSIVE walk(_, _)
walk(dir, comps) ==
    IF comps = << >> THEN {dir}
    ELSE LET c == Head(comps) IN
         IF c = << >> \/ c = <<".">> THEN walk(dir, Tail(comps))
         ELSE IF c = <<"..">>
              THEN walk(IF dir = << >> THEN dir ELSE SubSeq(dir, 1, Len(dir) - 1),
                        Tail(comps))
         ELSE IF Append(dir, c) \in Dirs THEN walk(Append(dir, c), Tail(comps))
         ELSE {}

\* the absolute locations a path string names: {} when a directory on the
\* way is missing, else the one location (which may or may not exist)
locate(path) ==
    LET comps == split(path, << >>)
        start == IF Head(path) = "/" THEN << >> ELSE OutputDir
        last  == comps[Len(comps)]
    IN  IF last \in { << >>, <<".">>, <<"..">> }
        THEN walk(start, comps)
        ELSE { Append(d, last) : d \in walk(start, SubSeq(comps, 1, Len(comps) - 1)) }

\* a check that looks at the output directory instead of the file
exists_of_directory(f, path) == locate(OUTPUT_PATH) \subseteq Dirs

\* os.path.exists(path)
exists(f, path) == \E p \in locate(path) : p \in Dirs \/ p \in DOMAIN f

\* the path names a regular file (what FileResponse requires when it is sent)
isfile(f, path) == \E p \in locate(path) : p \in DOMAIN f

\* a generate_speech that writes no file at all
touch_nothing(f, path, ok) == [fs |-> f, raised |-> ~ok]

\* a placeholder created before the failure is reported
touch_then_fail(f, path, ok) ==
    LET loc == locate(path) IN
    IF loc = {} THEN [fs |-> f, raised |-> TRUE]
    ELSE LET p == CHOOSE x \in loc : TRUE IN
         [fs |-> IF p \in Dirs \/ p \in DOMAIN f THEN f ELSE f @@ (p :> << >>),
          raised |-> ~ok]

\* Path(path).touch(): creates an empty file unless the path exists already;
\* raises when a directory on the way is missing or the file system refuses
touch(f, path, ok) ==
    LET loc == locate(path) IN
    IF ~ok \/ loc = {} THEN [fs |-> f, raised |-> TRUE]
    ELSE LET p == CHOOSE x \in loc : TRUE IN
         IF p \in Dirs \/ p \in DOMAIN f
         THEN [fs |-> f, raised |-> FALSE]
         ELSE [fs |-> f @@ (p :> << >>), raised |-> FALSE]

\* open(path, "wb"): creates the file, or truncates it, under its final name;
\* raises when a directory on the way is missing or the path is a directory
open_wb(f, path) ==
    LET loc == locate(path) IN
    IF loc = {} \/ loc \subseteq Dirs
    THEN [fs |-> f, raised |-> TRUE, loc |-> {}]
    ELSE LET p == CHOOSE x \in loc : TRUE IN
         [fs |-> [q \in DOMAIN f \cup {p} |-> IF q = p THEN << >> ELSE f[q]],
          raised |-> FALSE, loc |-> {p}]

\* f.write(content) and the close at the end of the `with` block
write(f, p, bytes) == [f EXCEPT ![p] = bytes]

\* the prefixes of `bytes` a failed write can leave in the file
Prefixes(bytes) == { SubSeq(bytes, 1, n) : n \in 0..Len(bytes) }

\* ------------------------------------------------------------ the service
\* the position of a uuid in the pool
Index(u) == CHOOSE i \in 1..NumUuids : <<HexChars[i]>> = u

\* uuid.uuid4(): a value not drawn before (122 random bits).  The values of
\* the pool are interchangeable (no operation looks inside one), so the
\* draw takes the first unused one; clients may still ask for any of them,
\* drawn or not (AudioNames).
uuid4(drawn) ==
    { u \in UUIDs \ drawn : \A v \in UUIDs \ drawn : Index(u) <= Index(v) }

\* an output name that does not use the uuid
output_filename_fixed(u) == <<"output", ".wav">>

\* output_filename = f"{uuid.uuid4()}.wav"
output_filename(u) == u \o <<".wav">>

\* an upload name that is the client's filename alone
upload_filename_unprefixed(u, fname) == fname

\* filename = f"{uuid.uuid4()}_{file.filename}"
upload_filename(u, fname) == u \o <<"_">> \o fname

\* audio_url=f"/api/tts/audio/{output_filename}"
audio_url(name) == <<"/api/tts/audio/">> \o name

\* the {filename} path parameter of GET /api/tts/audio/{filename}
route_filename(url) == Tail(url)

BrokenHandle == "Broken"

\* a loader that stores a handle before the construction has succeeded
get_tts_model_caching_failure(model, loadOk) ==
    [model     |-> IF model = None /\ ~loadOk THEN BrokenHandle ELSE model,
     attempted |-> (model = None),
     raised    |-> (model = None /\ ~loadOk)]

\* get_tts_model(): while tts_model is None every call enters the loading
\* branch; the branch assigns nothing to tts_model (the construction of
\* IndexTTS2 is commented out), logs success or re-raises, and the function
\* returns tts_model
get_tts_model(model, loadOk) ==
    [model     |-> model,
     attempted |-> (model = None),
     raised    |-> (model = None /\ ~loadOk)]

IdleReq ==
    [kind |-> "none", pc |-> "idle", text |-> << >>, filename |-> << >>,
     content |-> << >>, status |-> 0, name |-> NoName, url |-> << >>,
     body |-> << >>, model_loaded |-> FALSE, acquired |-> "no",
     made |-> {}, loc |-> {}, loadsSeen |-> 0]

Init ==
    /\ tts_model = None
    /\ fs = << >>
    /\ reqs = [r \in Reqs |-> IdleReq]
    /\ used = {}
    /\ loadAttempts = 0
    /\ loadFailures = 0
    /\ served = {}

\* requests are accepted in the order of their numbers
Arrives(r) ==
    /\ reqs[r].pc = "idle"
    /\ IF r = 1 THEN TRUE ELSE reqs[r - 1].pc # "idle"

\* GET /health
health_check(r) ==
    /\ Arrives(r)
    /\ reqs' = [reqs EXCEPT ![r] =
                   [@ EXCEPT !.kind = "health", !.pc = "done", !.status = 200,
                             !.model_loaded = (tts_model # None),
                             !.loadsSeen = loadAttempts - loadFailures]]
    /\ UNCHANGED <<tts_model, fs, used, loadAttempts, loadFailures, served>>

\* POST /api/tts/generate
generate_speech(r, text, loadOk, touchOk) ==
    /\ Arrives(r)
    /\ LET g == get_tts_model(tts_model, loadOk) IN
       /\ tts_model' = g.model
       /\ loadAttempts' = loadAttempts + (IF g.attempted THEN 1 ELSE 0)
       /\ loadFailures' = loadFailures + (IF g.raised THEN 1 ELSE 0)
       /\ IF g.raised
          THEN /\ reqs' = [reqs EXCEPT ![r] =
                              [@ EXCEPT !.kind = "generate", !.pc = "done",
                                        !.text = text, !.status = 500,
                                        !.acquired = "raised"]]
               /\ UNCHANGED <<fs, used>>
          ELSE \E u \in uuid4(used) :
               LET name == output_filename(u)
                   output_path == join(OUTPUT_PATH, name)
                   t == touch(fs, output_path, touchOk)
               IN  /\ used' = used \cup {u}
                   /\ fs' = t.fs
                   /\ reqs' = [reqs EXCEPT ![r] =
                        [@ EXCEPT !.kind = "generate", !.pc = "done",
                                  !.text = text, !.acquired = "ok",
                                  !.made = DOMAIN t.fs \ DOMAIN fs,
                                  !.status = IF t.raised THEN 500 ELSE 200,
                                  !.name = IF t.raised THEN NoName ELSE name,
                                  !.url = IF t.raised THEN << >>
                                          ELSE audio_url(name)]]
    /\ UNCHANGED served

\* the names a client asks GET /api/tts/audio/{filename} for: the files of
\* the output directory, every name generate_speech can issue (issued yet
\* or not), and ".." (a path parameter holds no "/")
AudioNames ==
    { p[Len(p)] : p \in { q \in DOMAIN fs : SubSeq(q, 1, Len(q) - 1) = OutputDir } }
    \cup { output_filename(u) : u \in UUIDs }
    \cup { <<"..">> }

\* GET /api/tts/audio/{filename}: the handler, up to the FileResponse
get_audio(r, filename) ==
    /\ Arrives(r)
    /\ LET file_path == join(OUTPUT_PATH, filename) IN
       reqs' = [reqs EXCEPT ![r] =
                   IF ~exists(fs, file_path)
                   THEN [@ EXCEPT !.kind = "audio", !.pc = "done",
                                  !.filename = filename, !.status = 404]
                   ELSE [@ EXCEPT !.kind = "audio", !.pc = "send",
                                  !.filename = filename]]
    /\ UNCHANGED <<tts_model, fs, used, loadAttempts, loadFailures, served>>

\* the FileResponse is sent: the file is read now
FileResponse(r) ==
    /\ reqs[r].kind = "audio" /\ reqs[r].pc = "send"
    /\ LET file_path == join(OUTPUT_PATH, reqs[r].filename) IN
       IF isfile(fs, file_path)
       THEN LET p == CHOOSE x \in locate(file_path) : TRUE IN
            /\ reqs' = [reqs EXCEPT ![r] =
                           [@ EXCEPT !.pc = "done", !.status = 200, !.body = fs[p]]]
            /\ served' = served \cup { <<reqs[r].filename, fs[p]>> }
       ELSE /\ reqs' = [reqs EXCEPT ![r] = [@ EXCEPT !.pc = "done", !.status = 500]]
            /\ UNCHANGED served
    /\ UNCHANGED <<tts_model, fs, used, loadAttempts, loadFailures>>

\* POST /api/tts/upload-voice, up to `await file.read()`: the file is open
upload_voice_sample(r, fname, content) ==
    /\ Arrives(r)
    /\ \E u \in uuid4(used) :
       LET filename == upload_filename(u, fname)
           file_path == join(OUTPUT_PATH, filename)
           o == open_wb(fs, file_path)
       IN  /\ used' = used \cup {u}
           /\ fs' = o.fs
           /\ reqs' = [reqs EXCEPT ![r] =
                [@ EXCEPT !.kind = "upload", !.filename = fname,
                          !.content = IF o.raised THEN << >> ELSE content,
                          !.name = IF o.raised THEN NoName ELSE filename,
                          !.made = DOMAIN o.fs \ DOMAIN fs, !.loc = o.loc,
                          !.pc = IF o.raised THEN "done" ELSE "read",
                          !.status = IF o.raised THEN 500 ELSE 0]]
    /\ UNCHANGED <<tts_model, loadAttempts, loadFailures, served>>

\* upload_voice_sample resumes: content is read and written, the file closed
upload_write(r, writeOk) ==
    /\ reqs[r].kind = "upload" /\ reqs[r].pc = "read"
    /\ LET p == CHOOSE x \in reqs[r].loc : TRUE IN
       IF writeOk
       THEN /\ fs' = write(fs, p, reqs[r].content)
            /\ reqs' = [reqs EXCEPT ![r] =
                           [@ EXCEPT !.pc = "done", !.status = 200,
                                     !.url = audio_url(reqs[r].name)]]
       ELSE /\ \E part \in Prefixes(reqs[r].content) \ {reqs[r].content} :
                 fs' = write(fs, p, part)
            /\ reqs' = [reqs EXCEPT ![r] = [@ EXCEPT !.pc = "done", !.status = 500]]
    /\ UNCHANGED <<tts_model, used, loadAttempts, loadFailures, served>>

Next ==
    \/ \E r \in Reqs : health_check(r)
    \/ \E r \in Reqs, text \in Texts, loadOk \in BOOLEAN, touchOk \in BOOLEAN :
          generate_speech(r, text, loadOk, touchOk)
    \/ \E r \in Reqs : \E filename \in AudioNames : get_audio(r, filename)
    \/ \E r \in Reqs : FileResponse(r)
    \/ \E r \in Reqs, fname \in UploadNames, content \in Contents :
          upload_voice_sample(r, fname, content)
    \/ \E r \in Reqs, writeOk \in BOOLEAN : upload_write(r, writeOk)

Spec == Init /\ [][Next]_vars

\* ------------------------------------------------------------- properties
Generated(r) == reqs[r].kind = "generate" /\ reqs[r].pc = "done"

\* the request drew a name for a file: a generate_speech that created its
\* file, or an upload_voice_sample that opened its file
Issuing(r) == reqs[r].kind \in {"generate", "upload"} /\ reqs[r].name # NoName

\* the successful loads so far: the runs of the loading branch that did not raise
LoadsCompleted == loadAttempts - loadFailures

\* the text is empty or whitespace only
Whitespace == { " " }
IsBlank(text) == \A i \in 1..Len(text) : text[i] \in Whitespace

\* the filename holds a "../" sequence
IsTraversal(fname) ==
    \E i \in 1..(Len(fname) - 1) : fname[i] = ".." /\ fname[i + 1] = "/"

\* C1: every generate_speech with non-empty text ends either with status 200
\* and an audio_url whose file exists in the output directory (get_audio of
\* that name does not answer 404), or with the 500 error and no audio_url.
C1_NoDanglingReference ==
    \A r \in Reqs :
        (Generated(r) /\ reqs[r].text # << >>) =>
            \/ /\ reqs[r].status = 200
               /\ reqs[r].url # << >>
               /\ isfile(fs, join(OUTPUT_PATH, route_filename(reqs[r].url)))
               /\ exists(fs, join(OUTPUT_PATH, route_filename(reqs[r].url)))
            \/ /\ reqs[r].status = 500
               /\ reqs[r].url = << >>

\* a generate_speech has answered 200 while an upload is suspended in its write
C1_Witness ==
    \E r, q \in Reqs :
        /\ Generated(r) /\ reqs[r].text # << >> /\ reqs[r].status = 200
        /\ reqs[q].kind = "upload" /\ reqs[q].pc = "read"

\* C2: a generate_speech that answers 200 has created exactly one file, one
\* that answers 500 has created none, and the files created by generate calls
\* are as many as their 200 responses.
C2_OneFilePerSuccess ==
    /\ \A r \in Reqs :
          Generated(r) =>
              /\ reqs[r].made \subseteq DOMAIN fs
              /\ Cardinality(reqs[r].made) = IF reqs[r].status = 200 THEN 1 ELSE 0
    /\ Cardinality(UNION { reqs[r].made : r \in { q \in Reqs : Generated(q) } })
          = Cardinality({ r \in Reqs : Generated(r) /\ reqs[r].status = 200 })

\* generate calls have failed at the load and at the touch, and one has succeeded
C2_Witness ==
    \E a, b, c \in Reqs :
        /\ Generated(a) /\ reqs[a].acquired = "raised"
        /\ Generated(b) /\ reqs[b].acquired = "ok" /\ reqs[b].status = 500
        /\ Generated(c) /\ reqs[c].status = 200

\* C3: first requests that find the handle unloaded start exactly one model
\* construction: with no failed load, the load-attempt counter is 1 once a
\* generate_speech has run.
C3_ExactlyOneLoad ==
    (loadFailures = 0 /\ \E r \in Reqs : Generated(r)) => loadAttempts = 1

\* C4: once a load has completed without error the handle is Ready: it is
\* not None, no further load is started, and health_check reports
\* model_loaded = true.
C4_ReadyAfterLoad ==
    LoadsCompleted >= 1 =>
        /\ tts_model # None
        /\ LoadsCompleted = 1
        /\ \A r \in Reqs :
              (reqs[r].kind = "health" /\ reqs[r].loadsSeen >= 1) => reqs[r].model_loaded

\* C5: a step in which get_tts_model raises leaves tts_model None and ends
\* that request with the 500 error; while no load has completed, every
\* request that calls get_tts_model starts a new load attempt, and every
\* health_check reports model_loaded = false.
C5_FailedLoadNotCached ==
    [][ /\ (loadFailures' > loadFailures) =>
              /\ tts_model' = None
              /\ \E r \in Reqs : /\ reqs[r].pc = "idle"
                                 /\ reqs'[r].acquired = "raised"
                                 /\ reqs'[r].pc = "done"
                                 /\ reqs'[r].status = 500
        /\ \A r \in Reqs :
              (LoadsCompleted = 0 /\ reqs[r].pc = "idle" /\ reqs'[r].acquired # "no")
                  => loadAttempts' = loadAttempts + 1
        /\ \A r \in Reqs :
              (LoadsCompleted = 0 /\ reqs[r].pc = "idle" /\ reqs'[r].kind = "health")
                  => ~reqs'[r].model_loaded
      ]_vars

\* a load has failed, a later request has started another load, and a
\* health_check after the failure has reported model_loaded = false
C5_Witness ==
    \E a, b, h \in Reqs :
        /\ a < h /\ h < b
        /\ reqs[a].acquired = "raised" /\ reqs[a].status = 500
        /\ reqs[h].kind = "health" /\ reqs[h].pc = "done" /\ ~reqs[h].model_loaded
        /\ reqs[b].acquired # "no"
        /\ loadAttempts = 2
        /\ tts_model = None

\* C6: generate_speech with empty or whitespace-only text ends with a
\* client-error status, creates no file, does not acquire the model handle
\* and draws no identifier.
C6_BlankTextRejected ==
    \A r \in Reqs :
        (Generated(r) /\ IsBlank(reqs[r].text)) =>
            /\ reqs[r].status \in 400..499
            /\ reqs[r].made = {}
            /\ reqs[r].acquired = "no"
            /\ reqs[r].name = NoName

\* C7: the bytes served under one name never differ between two successful
\* get_audio responses.
C7_SameBytesPerName ==
    \A a, b \in served : a[1] = b[1] => a[2] = b[2]

\* C8: an upload whose filename holds a "../" sequence ends with the error
\* response and has created no file, and every file there is lies directly
\* inside the output directory.
C8_NoPathTraversal ==
    /\ \A p \in DOMAIN fs :
          Len(p) = Len(OutputDir) + 1 /\ SubSeq(p, 1, Len(OutputDir)) = OutputDir
    /\ \A r \in Reqs :
          (reqs[r].kind = "upload" /\ IsTraversal(reqs[r].filename)) =>
              /\ reqs[r].pc = "done"
              /\ reqs[r].status = 500
              /\ reqs[r].made = {}

\* an upload named "../../etc/passwd" has been answered, after another upload
\* has stored its file
C8_Witness ==
    \E r, q \in Reqs :
        /\ reqs[r].kind = "upload" /\ IsTraversal(reqs[r].filename) /\ reqs[r].pc = "done"
        /\ reqs[q].kind = "upload" /\ reqs[q].status = 200 /\ reqs[q].made # {}

\* C9: any two requests that drew a file name drew different names, naming
\* different files, and each created the file it names rather than writing
\* to a file that was there.
C9_DistinctNames ==
    \A r1, r2 \in Reqs :
        (r1 # r2 /\ Issuing(r1) /\ Issuing(r2)) =>
            /\ reqs[r1].name # reqs[r2].name
            /\ reqs[r1].url = << >> \/ reqs[r1].url # reqs[r2].url
            /\ locate(join(OUTPUT_PATH, reqs[r1].name))
                  \cap locate(join(OUTPUT_PATH, reqs[r2].name)) = {}
            /\ reqs[r1].made = locate(join(OUTPUT_PATH, reqs[r1].name))

\* two generate calls have answered 200 and an upload has opened its file
C9_Witness ==
    \E a, b, c \in Reqs :
        /\ a # b
        /\ Generated(a) /\ reqs[a].status = 200
        /\ Generated(b) /\ reqs[b].status = 200
        /\ reqs[c].kind = "upload" /\ Issuing(c)

\* C10: a get_audio for a name that no request has drawn and that does not
\* exist in the output directory answers 404 in that step, and the step
\* changes no file and neither the model handle nor the load counters.
C10_NotFound ==
    [][ \A r \in Reqs :
          (/\ reqs[r].pc = "idle"
           /\ reqs'[r].kind = "audio"
           /\ \A q \in Reqs : ~(Issuing(q) /\ reqs[q].name = reqs'[r].filename)
           /\ ~(\E p \in locate(join(OUTPUT_PATH, reqs'[r].filename)) :
                    p \in Dirs \/ p \in DOMAIN fs))
          => /\ reqs'[r].pc = "done"
             /\ reqs'[r].status = 404
             /\ fs' = fs
             /\ tts_model' = tts_model
             /\ loadAttempts' = loadAttempts
             /\ loadFailures' = loadFailures
      ]_vars

\* a get_audio has answered 404 for a name nobody drew, after a generate call
\* has created a file and an upload has stored one
C10_Witness ==
    \E r, g, u \in Reqs :
        /\ reqs[r].kind = "audio" /\ reqs[r].status = 404
        /\ \A q \in Reqs : ~(Issuing(q) /\ reqs[q].name = reqs[r].filename)
        /\ g < r /\ Generated(g) /\ reqs[g].status = 200
        /\ u < r /\ reqs[u].kind = "upload" /\ reqs[u].status = 200

====
